---- MODULE Spec2Model ----
(***************************************************************************)
(* ada-payment-module/models/payment.py: the reconciliation of a           *)
(* payment.transaction with the AdaPay gateway.                            *)
(*                                                                         *)
(* State: the payment.transaction records (tx), the acquirer               *)
(* configuration, and what the last entry point did (last).  One action    *)
(* per entry point: _handle_adapay_webhook, _get_processing_info and       *)
(* _adapay_update_payment_schedule; the methods they call are operators    *)
(* that thread an execution context                                        *)
(*   [db, notes, calls, raised, warned]                                    *)
(* through the code: the records as written so far, the notes posted on    *)
(* each sales order, the methods invoked, the exception raised, and        *)
(* whether a warning was logged.                                           *)
(*                                                                         *)
(* The host platform's _set_transaction_done / _pending / _cancel are not  *)
(* part of the repository; they are modelled by the effect their names     *)
(* state: the transaction's state becomes done / pending / cancel.         *)
(* A record keeps what a method wrote before it raised: whether the host   *)
(* rolls the request back is outside payment.py.                           *)
(*                                                                         *)
(* The entry points above run from their first to their last line in one   *)
(* step.  The specification SpecRace instead runs two requests at once     *)
(* (workers), each split where the code loads the ledger text and where    *)
(* it stores it; payment.py takes no lock between the two.                 *)
(***************************************************************************)
EXTENDS Integers, Sequences, FiniteSets, TLC

\* ---------------------------------------------------------------- bounds
\* done transitions performed on one transaction (caps the counter n_done)
MaxDone == 2

\* ------------------------------------------------------------ vocabulary
\* the gateway's status vocabulary; "cancelled" stands for any other value
Statuses == {"new", "payment-sent", "pending", "confirmed", "expired", "cancelled"}
UpdateTimes == {"T1", "T2"}
\* a Char field that was never written
Unset == "unset"
Hashes == {"h1", "h2"}
Amounts == {5000000, 1500000}
SaleOrders == {"so1", "so2", "so3"}

LOVELACE_PER_ADA == 1000000
SECONDS_PER_MINUTE == 60
SECONDS_PER_DAY == 86400
DEFAULT_EXPIRATION_MINUTES == 15
\* the windows an acquirer is configured with: the default, and one of more
\* than a day
ExpirationMinutes == {DEFAULT_EXPIRATION_MINUTES, 1500}

\* connectors.adapay.lovelace_to_ada: amount / 1,000,000, kept exact as
\* whole ADA and the remaining millionths
lovelace_to_ada(amount) ==
    [ada |-> amount \div LOVELACE_PER_ADA, millionths |-> amount % LOVELACE_PER_ADA]

\* ------------------------------------------------------ the ledger text
\* adapay_transaction_history is a Text field.  Its content is a JSON object
\* (kind "object", with the mapping it encodes), a JSON value that is no
\* object (kind "array", e.g. '[]'), text that is no JSON (kind "invalid"),
\* or the empty string (kind "empty").
EmptyLedger == [h \in {} |-> 0]
LedgerText(kind, map) == [kind |-> kind, map |-> map]
DefaultHistory == LedgerText("object", EmptyLedger)

\* json.loads: the decoded value and its Python type, or JSONDecodeError
json_loads(text) ==
    CASE text.kind = "object" -> [raised |-> "none", type |-> "dict", value |-> text.map]
      [] text.kind = "array"  -> [raised |-> "none", type |-> "list", value |-> EmptyLedger]
      [] OTHER -> [raised |-> "JSONDecodeError", type |-> "none", value |-> EmptyLedger]

\* json.dumps of a dict
json_dumps(map) == LedgerText("object", map)

\* ------------------------------------------------------------- the state
VARIABLES tx, acquirer, n_done, last, workers
vars == <<tx, acquirer, n_done, last, workers>>

TxIds == DOMAIN tx

NoNotes == [s \in SaleOrders |-> <<>>]
Context(db) ==
    [db |-> db, notes |-> NoNotes, calls |-> <<>>, raised |-> "none", warned |-> FALSE]

\* the methods invoked so far: <<method, transaction, argument>>
Called(ctx, method, t, arg) == [ctx EXCEPT !.calls = Append(@, <<method, t, arg>>)]

\* sale.message_post(body=...) for sale in self.sale_order_ids
message_post(ctx, t, body) ==
    [ctx EXCEPT !.notes = [s \in SaleOrders |->
        IF s \in ctx.db[t].sale_order_ids THEN Append(@[s], body) ELSE @[s]]]

\* how often the calls hold <<method, t, arg>>
Count(calls, entry) == Cardinality({i \in 1..Len(calls) : calls[i] = entry})

\* ------------------------------------------- host platform transitions
_set_transaction_done(ctx, t) ==
    Called([ctx EXCEPT !.db[t].state = "done"], "_set_transaction_done", t, "")
_set_transaction_pending(ctx, t) ==
    Called([ctx EXCEPT !.db[t].state = "pending"], "_set_transaction_pending", t, "")
_set_transaction_cancel(ctx, t) ==
    Called([ctx EXCEPT !.db[t].state = "cancel"], "_set_transaction_cancel", t, "")

\* ------------------------------------------------ status reconciliation
\* WriteStatusFields behind a freshness check
WriteStatusFields_IfFresh(ctx, t, data) ==
    IF data.updateTime = ctx.db[t].adapay_last_updated
    THEN Called(ctx, "_adapay_webhook_feedback", t, data.status)
    ELSE [Called(ctx, "_adapay_webhook_feedback", t, data.status)
             EXCEPT !.db[t].adapay_total_amount_sent = lovelace_to_ada(data.confirmedAmount),
                    !.db[t].adapay_total_amount_left = lovelace_to_ada(data.pendingAmount),
                    !.db[t].adapay_last_updated = data.updateTime,
                    !.db[t].adapay_status = data.status,
                    !.db[t].adapay_substatus = data.subStatus]

WriteStatusFields(ctx, t, data) ==
    [Called(ctx, "_adapay_webhook_feedback", t, data.status)
         EXCEPT !.db[t].adapay_total_amount_sent = lovelace_to_ada(data.confirmedAmount),
                !.db[t].adapay_total_amount_left = lovelace_to_ada(data.pendingAmount),
                !.db[t].adapay_last_updated = data.updateTime,
                !.db[t].adapay_status = data.status,
                !.db[t].adapay_substatus = data.subStatus]

\* MapStatus with payment-sent left out of the pending statuses
MapStatus_SentCancels(ctx, t, status) ==
    IF status = "confirmed"
    THEN IF ctx.db[t].state # "done" THEN _set_transaction_done(ctx, t) ELSE ctx
    ELSE IF status \in {"new", "pending"}
    THEN IF ctx.db[t].state # "pending" THEN _set_transaction_pending(ctx, t) ELSE ctx
    ELSE IF ctx.db[t].state # "cancel" THEN _set_transaction_cancel(ctx, t) ELSE ctx

\* MapStatus without the guard of the cancel transition
MapStatus_CancelUnguarded(ctx, t, status) ==
    IF status = "confirmed"
    THEN IF ctx.db[t].state # "done" THEN _set_transaction_done(ctx, t) ELSE ctx
    ELSE IF status \in {"new", "payment-sent", "pending"}
    THEN IF ctx.db[t].state # "pending" THEN _set_transaction_pending(ctx, t) ELSE ctx
    ELSE _set_transaction_cancel(ctx, t)

MapStatus(ctx, t, status) ==
    IF status = "confirmed"
    THEN IF ctx.db[t].state # "done" THEN _set_transaction_done(ctx, t) ELSE ctx
    ELSE IF status \in {"new", "payment-sent", "pending"}
    THEN IF ctx.db[t].state # "pending" THEN _set_transaction_pending(ctx, t) ELSE ctx
    ELSE IF ctx.db[t].state # "cancel" THEN _set_transaction_cancel(ctx, t) ELSE ctx

_adapay_webhook_feedback(ctx, t, data) ==
    LET written == WriteStatusFields(ctx, t, data)
        posted == message_post(written, t, "AdaPay payment update")
    IN  MapStatus(posted, t, data.status)

\* ------------------------------------------------ transaction-history merge
\* NeedsMerge without the comparison of the update times
NeedsMerge_Always(transaction_history, data) == TRUE

\* NeedsMerge that never replaces a record
NeedsMerge_AbsentOnly(transaction_history, data) ==
    data.hash \notin DOMAIN transaction_history

NeedsMerge(transaction_history, data) ==
    \/ data.hash \notin DOMAIN transaction_history
    \/ data.updateTime # transaction_history[data.hash].updateTime

\* MergeRecord that starts from an empty ledger: the other records are lost
MergeRecord_OnlyInbound(transaction_history, data) ==
    [h \in {data.hash} |-> [data EXCEPT !.amount = lovelace_to_ada(data.amount)]]

MergeRecord(transaction_history, data) ==
    LET converted == [data EXCEPT !.amount = lovelace_to_ada(data.amount)]
    IN  [h \in DOMAIN transaction_history \cup {data.hash} |->
            IF h = data.hash THEN converted ELSE transaction_history[h]]

\* _adapay_webhook_transaction_feedback that also stamps adapay_last_updated
\* with the update time of the merged record
_adapay_webhook_transaction_feedback_Stamps(ctx, t, data) ==
    LET loaded == json_loads(ctx.db[t].adapay_transaction_history)
        transaction_history ==
            IF loaded.raised = "JSONDecodeError" THEN EmptyLedger ELSE loaded.value
        called == Called(ctx, "_adapay_webhook_transaction_feedback", t, data.hash)
    IN  IF loaded.raised = "none" /\ loaded.type # "dict"
        THEN [called EXCEPT !.raised = "TypeError"]
        ELSE IF NeedsMerge(transaction_history, data)
        THEN message_post(
                 [called EXCEPT !.db[t].adapay_transaction_history =
                                    json_dumps(MergeRecord(transaction_history, data)),
                                !.db[t].adapay_last_updated = data.updateTime],
                 t, "AdaPay transaction update")
        ELSE called

_adapay_webhook_transaction_feedback(ctx, t, data) ==
    LET loaded == json_loads(ctx.db[t].adapay_transaction_history)
        transaction_history ==
            IF loaded.raised = "JSONDecodeError" THEN EmptyLedger ELSE loaded.value
        called == Called(ctx, "_adapay_webhook_transaction_feedback", t, data.hash)
    IN  IF loaded.raised = "none" /\ loaded.type # "dict"
        THEN [called EXCEPT !.raised = "TypeError"]
        ELSE IF NeedsMerge(transaction_history, data)
        THEN message_post(
                 [called EXCEPT !.db[t].adapay_transaction_history =
                                    json_dumps(MergeRecord(transaction_history, data))],
                 t, "AdaPay transaction update")
        ELSE called

\* -------------------------------------------------------- polling path
RECURSIVE MergeEach(_, _, _)
MergeEach(ctx, t, transactions) ==
    IF transactions = <<>> \/ ctx.raised # "none" THEN ctx
    ELSE MergeEach(_adapay_webhook_transaction_feedback(ctx, t, Head(transactions)),
                   t, Tail(transactions))

\* NeedsUpdate without the freshness guard
NeedsUpdate_Always(self, payment_data) == TRUE

NeedsUpdate(self, payment_data) == payment_data.updateTime # self.adapay_last_updated

\* _process_payment_data without the comparison of the update times
_process_payment_data_Unguarded(ctx, t, payment_data) ==
    MergeEach(_adapay_webhook_feedback(ctx, t, payment_data), t, payment_data.transactions)

_process_payment_data(ctx, t, payment_data) ==
    LET reconciled == IF NeedsUpdate(ctx.db[t], payment_data)
                      THEN _adapay_webhook_feedback(ctx, t, payment_data)
                      ELSE ctx
    IN  MergeEach(reconciled, t, payment_data.transactions)

\* ----------------------------------------------------- expiration timer
Expiration(self) ==
    self.create_date + self.adapay_expiration_minutes * SECONDS_PER_MINUTE

\* timedelta.seconds of a timedelta that is not negative: the seconds within
\* the day, the days left out
timedelta_seconds(delta) == delta % SECONDS_PER_DAY

\* the record and the exp_time after the timer
ExpirationTimer(self, now) ==
    IF self.adapay_status = "new"
    THEN IF now > Expiration(self)
         THEN [self |-> [self EXCEPT !.adapay_status = "expired"], exp_time |-> 0]
         ELSE [self |-> self, exp_time |-> timedelta_seconds(Expiration(self) - now)]
    ELSE [self |-> self, exp_time |-> 0]

\* the keys of the title dictionary
TitleKeys == {"new", "payment-sent", "pending", "confirmed", "expired"}

\* list(json.loads(self.adapay_transaction_history).values()), then
\* title[self.adapay_status]: the exception the rendering raises
RenderRaises(self) ==
    LET loaded == json_loads(self.adapay_transaction_history)
    IN  IF loaded.raised # "none" THEN loaded.raised
        ELSE IF loaded.type # "dict" THEN "AttributeError"
        ELSE IF self.adapay_status \notin TitleKeys THEN "KeyError"
        ELSE "none"

\* the history list of the display data
HistoryValues(self) ==
    LET map == json_loads(self.adapay_transaction_history).value
    IN  {map[h] : h \in DOMAIN map}

\* the try block: the gateway's answer applied, any exception logged
PollRefresh(ctx, t, fetched) ==
    IF fetched.raised # "none"
    THEN [ctx EXCEPT !.warned = TRUE]
    ELSE LET applied == _process_payment_data(ctx, t, fetched.payment)
         IN  IF applied.raised # "none"
             THEN [applied EXCEPT !.raised = "none", !.warned = TRUE]
             ELSE applied

\* ------------------------------------------------------ what is observed
Outcome(op, ctx, ret, exp_time, history) ==
    [op |-> op, ret |-> ret, raised |-> ctx.raised, warned |-> ctx.warned,
     notes |-> ctx.notes, calls |-> ctx.calls, exp_time |-> exp_time,
     history |-> history]

\* the state after an execution; n_done counts the done transitions
\* performed on each transaction
Commit(ctx, outcome) ==
    /\ n_done' = [t \in TxIds |-> n_done[t]
                          + Count(ctx.calls, <<"_set_transaction_done", t, "">>)]
    /\ \A t \in TxIds : n_done'[t] <= MaxDone
    /\ tx' = ctx.db
    /\ last' = outcome
    /\ UNCHANGED <<acquirer, workers>>

\* ------------------------------------------------- _get_processing_info
\* the status update: the gateway is polled unless the webhook is in use
Refreshed(t, fetched) ==
    IF tx[t].provider = "adapay" /\ ~acquirer.adapay_use_webhook
    THEN PollRefresh(Context(tx), t, fetched)
    ELSE Context(tx)

GetProcessingInfo(t, fetched, now) ==
    LET ctx0 == Context(tx)
    IN  IF tx[t].provider # "adapay"
        THEN Commit(ctx0, Outcome("_get_processing_info", ctx0, "res", 0, {}))
        ELSE LET refreshed == Refreshed(t, fetched)
                 timed == ExpirationTimer(refreshed.db[t], now)
                 ctx1 == [refreshed EXCEPT !.db[t] = timed.self]
                 raises == RenderRaises(timed.self)
             IN  IF raises # "none"
                 THEN Commit([ctx1 EXCEPT !.raised = raises],
                             Outcome("_get_processing_info", [ctx1 EXCEPT !.raised = raises],
                                     "none", 0, {}))
                 ELSE Commit(ctx1, Outcome("_get_processing_info", ctx1, "res",
                                           timed.exp_time, HistoryValues(timed.self)))

\* ------------------------------------------------ _handle_adapay_webhook
\* search that compares the reference whatever the field
search_ByReference(db, field, value) == {t \in DOMAIN db : db[t].reference = value}

\* self.search([(field, '=', reference)])
search(db, field, value) == {t \in DOMAIN db : db[t][field] = value}

\* _adapay_form_get_tx_from_data that raises only when nothing is found
_adapay_form_get_tx_from_data_AnyMatch(db, reference, field) ==
    LET found == search(db, field, reference)
    IN  IF found = {}
        THEN [raised |-> "ValidationError", tx |-> found]
        ELSE [raised |-> "none", tx |-> found]

\* the transaction found, or ValidationError
_adapay_form_get_tx_from_data(db, reference, field) ==
    LET found == search(db, field, reference)
    IN  IF Cardinality(found) # 1
        THEN [raised |-> "ValidationError", tx |-> found]
        ELSE [raised |-> "none", tx |-> found]

HandlePaymentRequestUpdate(data) ==
    LET ctx0 == Context(tx)
        lookup == _adapay_form_get_tx_from_data(tx, data.orderId, "reference")
    IN  IF lookup.raised # "none"
        THEN Commit(ctx0, Outcome("paymentRequestUpdate", ctx0, "False", 0, {}))
        ELSE LET odoo_tx == CHOOSE t \in lookup.tx : TRUE
                 ctx1 == _adapay_webhook_feedback(ctx0, odoo_tx, data)
             IN  Commit(ctx1, Outcome("paymentRequestUpdate", ctx1, "True", 0, {}))

HandleTransactionsUpdate(data) ==
    LET ctx0 == Context(tx)
        lookup == _adapay_form_get_tx_from_data(tx, data.paymentRequestUuid, "adapay_uuid")
    IN  IF lookup.raised # "none"
        THEN Commit(ctx0, Outcome("paymentRequestTransactionsUpdate", ctx0, "False", 0, {}))
        ELSE LET odoo_tx == CHOOSE t \in lookup.tx : TRUE
                 ctx1 == _adapay_webhook_transaction_feedback(ctx0, odoo_tx, data)
             IN  Commit(ctx1, Outcome("paymentRequestTransactionsUpdate", ctx1,
                                      IF ctx1.raised = "none" THEN "True" ELSE "none", 0, {}))

\* HandleOtherEvent that reports a failure
HandleOtherEvent_Fails ==
    LET ctx0 == Context(tx)
    IN  Commit(ctx0, Outcome("otherEvent", ctx0, "False", 0, {}))

\* an event that is neither of the two
HandleOtherEvent ==
    LET ctx0 == Context(tx)
    IN  Commit(ctx0, Outcome("otherEvent", ctx0, "True", 0, {}))

\* -------------------------------------- _adapay_update_payment_schedule
RECURSIVE SyncEach(_, _)
SyncEach(ctx, payments) ==
    IF payments = <<>> \/ ctx.raised # "none" THEN ctx
    ELSE LET payment == Head(payments)
             transaction == search(ctx.db, "adapay_uuid", payment.uuid)
             step ==
                 IF transaction = {} THEN ctx
                 ELSE IF Cardinality(transaction) > 1
                 THEN [ctx EXCEPT !.raised = "ValueError"]
                 ELSE LET t == CHOOSE x \in transaction : TRUE
                      IN  IF ctx.db[t].state # "done"
                          THEN _process_payment_data(ctx, t, payment)
                          ELSE ctx
         IN  SyncEach(step, Tail(payments))

UpdatePaymentSchedule(fetched) ==
    LET ctx0 == Context(tx)
        ctx1 == IF acquirer.adapay_use_webhook THEN ctx0
                ELSE IF fetched.raised # "none"
                THEN [ctx0 EXCEPT !.raised = fetched.raised]
                ELSE SyncEach(ctx0, fetched.data)
    IN  Commit(ctx1, Outcome("_adapay_update_payment_schedule", ctx1, "none", 0, {}))

\* ------------------------------------------------------------ the inputs
\* the amounts and the sub-status the gateway reports at an update time
Progress(updateTime) ==
    IF updateTime = "T1"
    THEN [confirmedAmount |-> 0, pendingAmount |-> 5000000, subStatus |-> ""]
    ELSE [confirmedAmount |-> 3500000, pendingAmount |-> 1500000, subStatus |-> "partial"]

\* data of the paymentRequestUpdate events for the orders, in the statuses
UpdateEvents(orders, statuses, times) ==
    { [orderId |-> r, status |-> s, updateTime |-> u,
       confirmedAmount |-> Progress(u).confirmedAmount,
       pendingAmount |-> Progress(u).pendingAmount,
       subStatus |-> Progress(u).subStatus] :
      r \in orders, s \in statuses, u \in times }

\* data of the paymentRequestTransactionsUpdate events
TransactionEvents(uuids, hashes, amounts, times) ==
    [paymentRequestUuid : uuids, hash : hashes, amount : amounts, updateTime : times]

\* the lists of the transactions, each hash at most once, in any order
Listed(transactions) ==
    { l \in UNION { [1..k -> transactions] : k \in 0..Cardinality(transactions) } :
        \A i, j \in 1..Len(l) : i # j => l[i].hash # l[j].hash }

\* the payment records of the gateway for one payment request: its status
\* fields and its per-hash transactions
Payments(uuid, statuses, times, transactions) ==
    { [uuid |-> uuid, status |-> s, updateTime |-> u,
       confirmedAmount |-> Progress(u).confirmedAmount,
       pendingAmount |-> Progress(u).pendingAmount,
       subStatus |-> Progress(u).subStatus, transactions |-> l] :
      s \in statuses, u \in times,
      l \in Listed({d \in transactions : d.paymentRequestUuid = uuid}) }

NoPayment ==
    [uuid |-> "", status |-> "", updateTime |-> "", confirmedAmount |-> 0,
     pendingAmount |-> 0, subStatus |-> "", transactions |-> <<>>]

\* conn.get_payment_by_uuid(uuid): a payment record, or an exception
Fetches(payments) ==
    {[raised |-> "ConnectionError", payment |-> NoPayment]}
    \cup {[raised |-> "none", payment |-> p] : p \in payments}

\* conn.get_payment(): the recent payment records, or an exception
Listings(payments) ==
    {[raised |-> "ConnectionError", data |-> <<>>]}
    \cup {[raised |-> "none", data |-> l] : l \in {<<>>} \cup {<<p>> : p \in payments}}

\* datetime.now(): at creation, before, at and after the expiration
Nows(self) ==
    {self.create_date, Expiration(self) - 300, Expiration(self), Expiration(self) + 60}

\* what the gateway and the clock feed the entry points
Universe(updates, events, payments) ==
    [updates |-> updates, events |-> events, payments |-> payments]

\* the status universe: every status, two transactions of the ledger
StatusUniverse ==
    LET events == { [paymentRequestUuid |-> "u1", hash |-> "h1", amount |-> 5000000,
                     updateTime |-> "T1"],
                    [paymentRequestUuid |-> "u1", hash |-> "h2", amount |-> 1500000,
                     updateTime |-> "T2"] }
    IN  Universe(UpdateEvents({"S0001"}, Statuses, UpdateTimes)
                     \cup UpdateEvents({"S0404"}, {"pending"}, {"T1"}),
                 events \cup TransactionEvents({"u404"}, {"h1"}, {5000000}, {"T1"}),
                 Payments("u1", Statuses, UpdateTimes, events))

\* the ledger universe: every transaction event of two hashes; the polled
\* payment lists each hash with one amount
LedgerUniverse ==
    LET events == TransactionEvents({"u1"}, Hashes, Amounts, UpdateTimes)
        listed == {d \in events : d.amount = (IF d.hash = "h1" THEN 5000000 ELSE 1500000)}
    IN  Universe(UpdateEvents({"S0001"}, {"pending"}, {"T1"}),
                 events \cup TransactionEvents({"u404"}, {"h1"}, {5000000}, {"T1"}),
                 Payments("u1", {"new"}, {"T1"}, listed))

\* the timer universe: statuses with and without a running timer
TimerUniverse ==
    LET events == TransactionEvents({"u1"}, {"h1"}, {5000000}, {"T1"})
    IN  Universe(UpdateEvents({"S0001"}, {"new", "pending", "cancelled"}, UpdateTimes),
                 events,
                 Payments("u1", {"new", "confirmed"}, UpdateTimes, events))

\* the database universe: events for an order and a payment request that
\* one transaction has, that two transactions share, and that none has
DBUniverse ==
    LET events == TransactionEvents({"u1"}, {"h1"}, {5000000}, {"T1"})
    IN  Universe(UpdateEvents({"S0001", "S0002", "S0404"}, {"pending", "confirmed"}, {"T1"}),
                 TransactionEvents({"u1", "u2", "u404"}, {"h1"}, {5000000}, UpdateTimes),
                 Payments("u1", {"expired"}, {"T2"}, events)
                     \cup Payments("u2", {"pending"}, {"T2"}, {}))

\* the texts the history field may hold: the default '{}', text that is no
\* JSON, the empty string, and JSON that is no object
StoredHistories ==
    {DefaultHistory, LedgerText("invalid", EmptyLedger), LedgerText("empty", EmptyLedger),
     LedgerText("array", EmptyLedger)}

\* ---------------------------------------------------- concurrent requests
\* The host serves each request (a webhook delivery, a processing-info poll)
\* in a worker of its own.  A worker runs one job: the payload of a
\* paymentRequestTransactionsUpdate event, or the payment record a poll
\* fetched.  workers[w] is the worker's position in the code (pc), its job,
\* the transaction it works on (self), the ledger text it has loaded (seen),
\* and the records as they were when the jobs were handed out (origin).
Workers == {"w1", "w2"}

WebhookJob(data) ==
    [kind |-> "webhook",
     payment |-> [NoPayment EXCEPT !.uuid = data.paymentRequestUuid,
                                   !.transactions = <<data>>]]
PollJob(payment) == [kind |-> "poll", payment |-> payment]

IdleWorker(db) ==
    [pc |-> "idle", kind |-> "none", self |-> "", payment |-> NoPayment,
     seen |-> DefaultHistory, origin |-> db]

\* the jobs of the race universe: every transaction event of two hashes, and
\* the polls that find a pending payment with one transaction
RaceUniverse ==
    LET events == TransactionEvents({"u1"}, Hashes, {5000000}, UpdateTimes)
    IN  Universe({}, events, Payments("u1", {"pending"}, {"T1"}, events))

RaceJobs ==
    {WebhookJob(data) : data \in RaceUniverse.events}
    \cup {PollJob(p) : p \in {q \in RaceUniverse.payments : Len(q.transactions) = 1}}

\* two requests arrive for the transaction of the payment request
Dispatch(job1, job2) ==
    /\ \A w \in Workers : workers[w].pc \in {"idle", "done"}
    /\ \A job \in {job1, job2} : job.kind = "poll" => ~acquirer.adapay_use_webhook
    /\ \E t \in search(tx, "adapay_uuid", job1.payment.uuid) :
           workers' = [w \in Workers |->
               [pc |-> "start", kind |-> (IF w = "w1" THEN job1 ELSE job2).kind,
                self |-> t, payment |-> (IF w = "w1" THEN job1 ELSE job2).payment,
                seen |-> DefaultHistory, origin |-> tx]]
    /\ UNCHANGED <<tx, acquirer, n_done, last>>

\* _process_payment_data, lines 149-152: the status reconciliation of a poll
WorkerReconcile(w) ==
    LET job == workers[w]
        ctx == IF job.kind = "poll" /\ NeedsUpdate(tx[job.self], job.payment)
               THEN _adapay_webhook_feedback(Context(tx), job.self, job.payment)
               ELSE Context(tx)
    IN  /\ job.pc = "start"
        /\ tx' = ctx.db
        /\ n_done' = [t \in TxIds |-> n_done[t]
                          + Count(ctx.calls, <<"_set_transaction_done", t, "">>)]
        /\ workers' = [workers EXCEPT ![w].pc = "read"]
        /\ UNCHANGED <<acquirer, last>>

\* _adapay_webhook_transaction_feedback, line 252: the stored text is loaded
WorkerRead(w) ==
    LET job == workers[w]
    IN  /\ job.pc = "read"
        /\ workers' = [workers EXCEPT ![w].pc = "write",
                                      ![w].seen = tx[job.self].adapay_transaction_history]
        /\ UNCHANGED <<tx, acquirer, n_done, last>>

\* _adapay_webhook_transaction_feedback, lines 255-260: the record is merged
\* into the mapping that was loaded, and the mapping is stored
WorkerWrite(w) ==
    LET job == workers[w]
        loaded == [tx EXCEPT ![job.self].adapay_transaction_history = job.seen]
        merged == _adapay_webhook_transaction_feedback(
                      Context(loaded), job.self, Head(job.payment.transactions))
        stored == merged.db[job.self].adapay_transaction_history
    IN  /\ job.pc = "write"
        /\ tx' = IF stored # job.seen
                 THEN [tx EXCEPT ![job.self].adapay_transaction_history = stored]
                 ELSE tx
        /\ workers' = [workers EXCEPT ![w].pc = "done"]
        /\ UNCHANGED <<acquirer, n_done, last>>

\* ------------------------------------------------------------ behaviours
NewTransaction(minutes, history) ==
    [reference |-> "S0001", adapay_uuid |-> "u1", provider |-> "adapay",
     state |-> "pending", create_date |-> 0,
     adapay_expiration_minutes |-> minutes,
     adapay_status |-> "new", adapay_substatus |-> "",
     adapay_total_amount_sent |-> lovelace_to_ada(0),
     adapay_total_amount_left |-> lovelace_to_ada(0),
     adapay_last_updated |-> Unset,
     adapay_transaction_history |-> history,
     sale_order_ids |-> {"so1", "so2"}]

InitWith(minutes, histories) ==
    /\ \E m \in minutes, h \in histories : tx = [t \in {"tx1"} |-> NewTransaction(m, h)]
    /\ acquirer \in [adapay_use_webhook : BOOLEAN]
    /\ n_done = [t \in {"tx1"} |-> 0]
    /\ last = Outcome("create", Context(tx), "none", 0, {})
    /\ workers = [w \in Workers |-> IdleWorker(tx)]

\* _get_processing_info reads the gateway in polling mode only, asking for
\* the payment of the transaction's own uuid, and the clock only while the
\* status is new
PollsOf(U, t) ==
    IF acquirer.adapay_use_webhook THEN {[raised |-> "none", payment |-> NoPayment]}
    ELSE Fetches({p \in U.payments : p.uuid = tx[t].adapay_uuid})

ClockOf(ctx, t) == IF ctx.db[t].adapay_status = "new" THEN Nows(ctx.db[t])
                   ELSE {ctx.db[t].create_date}

\* the webhook endpoint and the processing-info page
NextOver(U) ==
    \/ \E data \in U.updates : HandlePaymentRequestUpdate(data)
    \/ \E data \in U.events : HandleTransactionsUpdate(data)
    \/ HandleOtherEvent
    \/ \E t \in TxIds : \E fetched \in PollsOf(U, t) :
           \E now \in ClockOf(Refreshed(t, fetched), t) : GetProcessingInfo(t, fetched, now)

\* the scheduled synchronization
SyncOver(U) ==
    \E fetched \in (IF acquirer.adapay_use_webhook THEN {[raised |-> "none", data |-> <<>>]}
                    ELSE Listings(U.payments)) :
        UpdatePaymentSchedule(fetched)

\* Status reconciliation: a transaction as created, every status.
Init == InitWith({DEFAULT_EXPIRATION_MINUTES}, {DefaultHistory})
Next == NextOver(StatusUniverse)
Spec == Init /\ [][Next]_vars

\* Status reconciliation with the scheduled synchronization.
NextSync == Next \/ SyncOver(StatusUniverse)
SpecSync == Init /\ [][NextSync]_vars

\* The ledger: any stored text, every transaction event.
InitLedger == InitWith({DEFAULT_EXPIRATION_MINUTES}, StoredHistories)
NextLedger == NextOver(LedgerUniverse)
SpecLedger == InitLedger /\ [][NextLedger]_vars

\* The timer: the default and a long expiration window.
InitTimer == InitWith(ExpirationMinutes, {DefaultHistory})
NextTimer == NextOver(TimerUniverse)
SpecTimer == InitTimer /\ [][NextTimer]_vars

\* The database: three transactions, two of them with the same reference
\* and the same payment uuid.
NewTransactionFor(reference, uuid, orders) ==
    [NewTransaction(DEFAULT_EXPIRATION_MINUTES, DefaultHistory)
         EXCEPT !.reference = reference, !.adapay_uuid = uuid, !.sale_order_ids = orders]

InitDB ==
    /\ tx = [t \in {"tx1", "tx2", "tx3"} |->
                IF t = "tx1" THEN NewTransactionFor("S0001", "u1", {"so1", "so2"})
                ELSE NewTransactionFor("S0002", "u2", {"so3"})]
    /\ acquirer \in [adapay_use_webhook : BOOLEAN]
    /\ n_done = [t \in {"tx1", "tx2", "tx3"} |-> 0]
    /\ last = Outcome("create", Context(tx), "none", 0, {})
    /\ workers = [w \in Workers |-> IdleWorker(tx)]
NextDB == NextOver(DBUniverse)
SpecDB == InitDB /\ [][NextDB]_vars

\* Concurrent requests: two workers, their steps interleaved.
InitRace == InitWith({DEFAULT_EXPIRATION_MINUTES}, {DefaultHistory})
NextRace ==
    \/ \E job1, job2 \in RaceJobs : Dispatch(job1, job2)
    \/ \E w \in Workers : WorkerReconcile(w)
    \/ \E w \in Workers : WorkerRead(w)
    \/ \E w \in Workers : WorkerWrite(w)
SpecRace == InitRace /\ [][NextRace]_vars

\* =================================================================== claims
Ledger(self) == self.adapay_transaction_history

\* the hash of data is in the stored ledger with the update time of data
Present(self, data) ==
    /\ Ledger(self).kind = "object"
    /\ data.hash \in DOMAIN Ledger(self).map
    /\ Ledger(self).map[data.hash].updateTime = data.updateTime

\* the transitions among the calls, in order
Transitions(calls) == SelectSeq(calls, LAMBDA c : c[1] \in
    {"_set_transaction_done", "_set_transaction_pending", "_set_transaction_cancel"})

\* the notes of one posting on every linked sales order
OneNote(self, body) ==
    [s \in SaleOrders |-> IF s \in self.sale_order_ids THEN <<body>> ELSE <<>>]

\* C1: an update whose hash is in the ledger with the incoming updateTime
\* leaves the ledger (and the whole record) as it is and posts no note, in
\* every reachable state, so however often it is replayed.
C1_ReplayIsNoOp ==
    \A t \in TxIds : \A data \in LedgerUniverse.events :
        Present(tx[t], data) =>
            LET after == _adapay_webhook_transaction_feedback(Context(tx), t, data)
            IN  /\ after.db = tx
                /\ after.notes = NoNotes
                /\ after.raised = "none"

\* a replayed event went through the webhook and changed and posted nothing
C1_Witness ==
    \E t \in TxIds : \E h \in Hashes :
        /\ last.op = "paymentRequestTransactionsUpdate"
        /\ last.ret = "True"
        /\ last.calls = << <<"_adapay_webhook_transaction_feedback", t, h>> >>
        /\ last.notes = NoNotes
        /\ h \in DOMAIN Ledger(tx[t]).map

\* C2: the done transition is performed exactly once on a transaction,
\* however often the confirmed payload is delivered: never a second time.
C2_DoneExactlyOnce ==
    \A t \in TxIds :
        /\ n_done[t] <= 1
        /\ tx[t].adapay_status = "confirmed" => n_done[t] = 1

PendingStatuses == {"new", "payment-sent", "pending"}

\* C3: a payload with status new, payment-sent or pending leaves the local
\* status pending, whatever it was, and invokes the pending transition
\* exactly when the local status was not pending already (and no other).
C3_PendingMapping ==
    \A t \in TxIds : \A data \in StatusUniverse.updates :
        data.status \in PendingStatuses =>
            LET after == _adapay_webhook_feedback(Context(tx), t, data)
            IN  /\ after.db[t].state = "pending"
                /\ Transitions(after.calls) =
                       IF tx[t].state = "pending" THEN <<>>
                       ELSE << <<"_set_transaction_pending", t, "">> >>

\* a payment-sent event moved a transaction that had been done back to pending
C3_Witness ==
    \E t \in TxIds :
        /\ last.op = "paymentRequestUpdate"
        /\ last.calls = << <<"_adapay_webhook_feedback", t, "payment-sent">>,
                           <<"_set_transaction_pending", t, "">> >>
        /\ tx[t].state = "pending"
        /\ n_done[t] >= 1

\* C4: a payload whose status is none of confirmed, new, payment-sent and
\* pending leaves the local status cancel, whatever it was, and invokes the
\* cancel transition exactly when the local status was not cancel already.
C4_CancelMapping ==
    \A t \in TxIds : \A data \in StatusUniverse.updates :
        data.status \notin PendingStatuses \cup {"confirmed"} =>
            LET after == _adapay_webhook_feedback(Context(tx), t, data)
            IN  /\ after.db[t].state = "cancel"
                /\ Transitions(after.calls) =
                       IF tx[t].state = "cancel" THEN <<>>
                       ELSE << <<"_set_transaction_cancel", t, "">> >>

\* an unrecognized status arrived at a cancelled transaction: no transition
C4_Witness ==
    \E t \in TxIds :
        /\ last.op = "paymentRequestUpdate"
        /\ last.calls = << <<"_adapay_webhook_feedback", t, "cancelled">> >>
        /\ tx[t].state = "cancel"

\* C5: in every reachable state, external status confirmed means local
\* status done, and expired or any other failure value means cancel.
C5_TerminalWhenResolved ==
    \A t \in TxIds :
        /\ tx[t].adapay_status = "confirmed" => tx[t].state = "done"
        /\ tx[t].adapay_status \notin PendingStatuses \cup {"confirmed"}
               => tx[t].state = "cancel"

\* C6: _get_processing_info on a transaction whose status is new after the
\* refresh: past the expiration the status becomes expired and 0 seconds are
\* reported; otherwise the status stays new and the seconds until the
\* expiration are reported; with any other status the timer changes nothing.
C6_ExpirationTimer ==
    [][\A t \in TxIds : \A fetched \in PollsOf(TimerUniverse, t) : \A now \in Nows(tx[t]) :
        GetProcessingInfo(t, fetched, now) =>
            LET before == Refreshed(t, fetched).db[t]
                expiration == before.create_date + before.adapay_expiration_minutes * 60
            IN  /\ (before.adapay_status = "new" /\ now > expiration)
                       => (tx'[t].adapay_status = "expired" /\ last'.exp_time = 0)
                /\ (before.adapay_status = "new" /\ now <= expiration)
                       => (tx'[t].adapay_status = "new" /\ last'.exp_time = expiration - now)
                /\ before.adapay_status # "new" => tx'[t] = before]_vars

\* the record an inbound update leaves in the ledger
Inbound(data) ==
    [paymentRequestUuid |-> data.paymentRequestUuid, hash |-> data.hash,
     amount |-> [ada |-> data.amount \div 1000000, millionths |-> data.amount % 1000000],
     updateTime |-> data.updateTime]

\* C7: a transaction event for a stored history that is no JSON object is
\* merged without raising, and the ledger is then the one inbound record.
C7_MalformedLedgerIsEmpty ==
    [][\A t \in TxIds : \A data \in LedgerUniverse.events :
        (/\ HandleTransactionsUpdate(data)
         /\ data.paymentRequestUuid = tx[t].adapay_uuid
         /\ Ledger(tx[t]).kind # "object")
            => /\ last'.raised = "none"
               /\ Ledger(tx'[t]).kind = "object"
               /\ Ledger(tx'[t]).map = [h \in {data.hash} |-> Inbound(data)]]_vars

\* C8: _get_processing_info on a history that is malformed or empty does not
\* raise and shows an empty history list.
C8_RenderToleratesMalformed ==
    \A t \in TxIds :
        (last.op = "_get_processing_info" /\ Ledger(tx[t]).kind # "object")
            => (last.raised = "none" /\ last.history = {})

\* C9: an update whose hash is absent from the ledger, or present with
\* another updateTime, replaces that hash's record by the inbound record with
\* the amount in ADA, keeps every other record and the rest of the
\* transaction, and posts one note on each linked sales order.
C9_MergeReplaces ==
    \A t \in TxIds : \A data \in LedgerUniverse.events :
        (Ledger(tx[t]).kind = "object" /\ ~Present(tx[t], data)) =>
            LET after == _adapay_webhook_transaction_feedback(Context(tx), t, data)
                old == Ledger(tx[t]).map
                new == Ledger(after.db[t]).map
            IN  /\ after.raised = "none"
                /\ Ledger(after.db[t]).kind = "object"
                /\ DOMAIN new = DOMAIN old \cup {data.hash}
                /\ new[data.hash] = Inbound(data)
                /\ new[data.hash].amount.ada * 1000000 + new[data.hash].amount.millionths
                       = data.amount
                /\ \A h \in DOMAIN old \ {data.hash} : new[h] = old[h]
                /\ after.db = [tx EXCEPT ![t].adapay_transaction_history = Ledger(after.db[t])]
                /\ after.notes = OneNote(tx[t], "AdaPay transaction update")

\* the example: ledger {} plus {hash h1, amount 5000000, updateTime T1}
C9_Witness ==
    \E t \in TxIds :
        /\ last.op = "paymentRequestTransactionsUpdate"
        /\ last.notes = OneNote(tx[t], "AdaPay transaction update")
        /\ Ledger(tx[t]) = LedgerText("object", [h \in {"h1"} |->
               [paymentRequestUuid |-> "u1", hash |-> "h1",
                amount |-> [ada |-> 5, millionths |-> 0], updateTime |-> "T1"]])

\* the calls of the ledger merge, in order
Merges(calls) ==
    SelectSeq(calls, LAMBDA c : c[1] = "_adapay_webhook_transaction_feedback")

\* C10: _process_payment_data reconciles the status exactly when the
\* payload's updateTime differs from adapay_last_updated; when they are equal
\* the mirrored fields and the local status stay; either way the merge is
\* applied to every transaction of the payload, in order.
C10_FreshnessGuard ==
    \A t \in TxIds : \A payment \in StatusUniverse.payments :
        LET after == _process_payment_data(Context(tx), t, payment)
            self == tx[t]
            same == payment.updateTime = self.adapay_last_updated
        IN  /\ Count(after.calls, <<"_adapay_webhook_feedback", t, payment.status>>)
                   = (IF same THEN 0 ELSE 1)
            /\ same => /\ Transitions(after.calls) = <<>>
                       /\ after.db[t] = [self EXCEPT !.adapay_transaction_history =
                                                         Ledger(after.db[t])]
            /\ ~same => after.db[t].adapay_status = payment.status
            /\ Merges(after.calls) =
                   [i \in 1..Len(payment.transactions) |->
                       <<"_adapay_webhook_transaction_feedback", t, payment.transactions[i].hash>>]
            /\ \A i \in 1..Len(payment.transactions) :
                   Present(after.db[t], payment.transactions[i])

\* a poll with the stored updateTime: no reconciliation, both transactions merged
C10_Witness ==
    \E t \in TxIds :
        /\ last.op = "_get_processing_info"
        /\ last.calls = << <<"_adapay_webhook_transaction_feedback", t, "h1">>,
                           <<"_adapay_webhook_transaction_feedback", t, "h2">> >>
        /\ tx[t].adapay_last_updated \in UpdateTimes
        /\ last.notes = [s \in SaleOrders |-> IF s \in tx[t].sale_order_ids
                            THEN <<"AdaPay transaction update", "AdaPay transaction update">>
                            ELSE <<>>]

Matching(field, value) == {t \in TxIds : tx[t][field] = value}

\* the webhook dropped the event: False returned, nothing raised, called,
\* posted or written
Dropped ==
    /\ last'.ret = "False"
    /\ last'.raised = "none"
    /\ last'.calls = <<>>
    /\ last'.notes = NoNotes
    /\ tx' = tx
    /\ n_done' = n_done

\* C12: a paymentRequestUpdate whose orderId, or a
\* paymentRequestTransactionsUpdate whose paymentRequestUuid, matches no
\* transaction or more than one makes _handle_adapay_webhook return False
\* without raising, and leaves every transaction as it was.
C12_LookupFailureDrops ==
    [][/\ \A data \in DBUniverse.updates :
           (/\ HandlePaymentRequestUpdate(data)
            /\ Cardinality(Matching("reference", data.orderId)) # 1) => Dropped
       /\ \A data \in DBUniverse.events :
           (/\ HandleTransactionsUpdate(data)
            /\ Cardinality(Matching("adapay_uuid", data.paymentRequestUuid)) # 1)
               => Dropped]_vars

\* an event was dropped while two transactions, already reconciled by a
\* poll, share a reference and a payment uuid
C12_Witness ==
    /\ last.op \in {"paymentRequestUpdate", "paymentRequestTransactionsUpdate"}
    /\ last.ret = "False"
    /\ Cardinality(Matching("reference", "S0002")) = 2
    /\ Cardinality(Matching("adapay_uuid", "u2")) = 2
    /\ \E t \in Matching("reference", "S0002") : tx[t].adapay_last_updated = "T2"

\* C13: a paymentRequestUpdate is applied as a status reconciliation to the
\* one transaction whose reference is data.orderId, and a
\* paymentRequestTransactionsUpdate as a ledger merge to the one transaction
\* whose adapay_uuid is data.paymentRequestUuid; no other transaction and no
\* other part of that transaction is modified.
C13_DispatchByEventKind ==
    [][/\ \A data \in DBUniverse.updates : \A t \in TxIds :
           (/\ HandlePaymentRequestUpdate(data)
            /\ Matching("reference", data.orderId) = {t})
               => /\ tx' = _adapay_webhook_feedback(Context(tx), t, data).db
                  /\ tx'[t].adapay_status = data.status
                  /\ tx'[t].adapay_last_updated = data.updateTime
                  /\ Ledger(tx'[t]) = Ledger(tx[t])
                  /\ \A other \in TxIds \ {t} : tx'[other] = tx[other]
                  /\ Head(last'.calls) = <<"_adapay_webhook_feedback", t, data.status>>
                  /\ Merges(last'.calls) = <<>>
                  /\ last'.ret = "True"
       /\ \A data \in DBUniverse.events : \A t \in TxIds :
           (/\ HandleTransactionsUpdate(data)
            /\ Matching("adapay_uuid", data.paymentRequestUuid) = {t})
               => /\ tx' = _adapay_webhook_transaction_feedback(Context(tx), t, data).db
                  /\ Present(tx'[t], data)
                  /\ tx'[t] = [tx[t] EXCEPT !.adapay_transaction_history = Ledger(tx'[t])]
                  /\ \A other \in TxIds \ {t} : tx'[other] = tx[other]
                  /\ last'.calls =
                         << <<"_adapay_webhook_transaction_feedback", t, data.hash>> >>
                  /\ last'.ret = "True"]_vars

\* both kinds were applied to the transaction of S0001 / u1 alone: it is
\* confirmed and holds h1, the two transactions of S0002 / u2 are as created
C13_Witness ==
    /\ last.op = "paymentRequestTransactionsUpdate"
    /\ last.calls = << <<"_adapay_webhook_transaction_feedback", "tx1", "h1">> >>
    /\ last.notes = OneNote(tx["tx1"], "AdaPay transaction update")
    /\ tx["tx1"].adapay_status = "confirmed"
    /\ tx["tx1"].state = "done"
    /\ DOMAIN Ledger(tx["tx1"]).map = {"h1"}
    /\ \A other \in TxIds \ {"tx1"} :
           tx[other] = NewTransactionFor("S0002", "u2", {"so3"})

\* C14: a webhook whose event is neither paymentRequestUpdate nor
\* paymentRequestTransactionsUpdate (or is missing) calls neither handler,
\* changes no transaction, posts nothing, and returns True.
C14_OtherEventIsNoOp ==
    [][HandleOtherEvent =>
           /\ tx' = tx
           /\ n_done' = n_done
           /\ last'.ret = "True"
           /\ last'.raised = "none"
           /\ last'.calls = <<>>
           /\ last'.notes = NoNotes]_vars

\* an unrecognized event arrived at a transaction that is confirmed and done
C14_Witness ==
    /\ last.op = "otherEvent"
    /\ last.ret = "True"
    /\ \E t \in TxIds : tx[t].adapay_status = "confirmed" /\ tx[t].state = "done"

\* an amount of lovelace in ADA
InAda(amount) == [ada |-> amount \div 1000000, millionths |-> amount % 1000000]

\* C15: every call of _adapay_webhook_feedback sets amount sent, amount left,
\* adapay_last_updated, adapay_status and adapay_substatus from the payload,
\* also when the payload's updateTime is the stored one or an older one, and
\* posts one note on every linked sales order whether or not the local status
\* changes.
C15_UnconditionalWrite ==
    \A t \in TxIds : \A data \in StatusUniverse.updates :
        LET after == _adapay_webhook_feedback(Context(tx), t, data)
        IN  /\ after.db[t].adapay_total_amount_sent = InAda(data.confirmedAmount)
            /\ after.db[t].adapay_total_amount_left = InAda(data.pendingAmount)
            /\ after.db[t].adapay_last_updated = data.updateTime
            /\ after.db[t].adapay_status = data.status
            /\ after.db[t].adapay_substatus = data.subStatus
            /\ after.notes = OneNote(tx[t], "AdaPay payment update")
            /\ after.raised = "none"

\* a pending payload arrived at a transaction that was pending again after
\* having been done: no transition, yet the fields were written and the note
\* posted
C15_Witness ==
    \E t \in TxIds :
        /\ last.op = "paymentRequestUpdate"
        /\ last.calls = << <<"_adapay_webhook_feedback", t, "pending">> >>
        /\ last.notes = OneNote(tx[t], "AdaPay payment update")
        /\ tx[t].adapay_last_updated = "T1"
        /\ tx[t].adapay_status = "pending"
        /\ tx[t].adapay_total_amount_left = InAda(5000000)
        /\ n_done[t] >= 1

\* the external-status fields of a transaction
StatusFields(self) ==
    [adapay_status |-> self.adapay_status,
     adapay_substatus |-> self.adapay_substatus,
     adapay_total_amount_sent |-> self.adapay_total_amount_sent,
     adapay_total_amount_left |-> self.adapay_total_amount_left,
     adapay_last_updated |-> self.adapay_last_updated]

\* the step applied a status payload to t: a paymentRequestUpdate event, or
\* a polling refresh or scheduled sync that found the gateway changed
Reconciled(t) ==
    /\ last'.op \in {"paymentRequestUpdate", "_get_processing_info",
                     "_adapay_update_payment_schedule"}
    /\ \E i \in 1..Len(last'.calls) :
           last'.calls[i][1] = "_adapay_webhook_feedback" /\ last'.calls[i][2] = t

\* C16 as stated: the external-status fields of a transaction change only in
\* a step that applies a webhook event or a polling refresh to it; a
\* processing-info read with no gateway change alters none of them.
C16_OnlyGatewayMutates ==
    [][\A t \in TxIds :
           StatusFields(tx'[t]) # StatusFields(tx[t]) => Reconciled(t)]_vars

\* C16 as amended: the external-status fields change only in a step that
\* applies a webhook event or a polling refresh, or in a processing-info
\* read of a transaction whose status is new, which then does nothing to
\* them but set adapay_status to expired.
C16_OnlyGatewayOrTimerMutates ==
    [][\A t \in TxIds :
           StatusFields(tx'[t]) # StatusFields(tx[t]) =>
               \/ Reconciled(t)
               \/ /\ last'.op = "_get_processing_info"
                  /\ tx[t].adapay_status = "new"
                  /\ StatusFields(tx'[t]) =
                         [StatusFields(tx[t]) EXCEPT !.adapay_status = "expired"]]_vars

\* a processing-info read that applied no payload expired the transaction:
\* it was never reconciled and is still pending locally
C16_Witness ==
    \E t \in TxIds :
        /\ last.op = "_get_processing_info"
        /\ last.calls = <<>>
        /\ tx[t].adapay_status = "expired"
        /\ tx[t].adapay_last_updated = Unset
        /\ tx[t].state = "pending"

\* the records after a job ran alone, from its first to its last line
Alone(db, job) ==
    LET t == job.self
    IN  IF job.kind = "poll"
        THEN _process_payment_data(Context(db), t, job.payment).db
        ELSE _adapay_webhook_transaction_feedback(
                 Context(db), t, Head(job.payment.transactions)).db

C18_DoneIsTerminal ==
    [][\A t \in TxIds : tx[t].state = "done" => tx'[t].state = "done"]_vars

\* the ledger after one update: the record of the update's hash is the
\* update's when the hash is new or its stored updateTime differs
Put(map, data) ==
    IF data.hash \in DOMAIN map /\ map[data.hash].updateTime = data.updateTime
    THEN map
    ELSE [h \in DOMAIN map \cup {data.hash} |->
             IF h = data.hash THEN Inbound(data) ELSE map[h]]

\* the ledger after the updates of a list, applied in order
RECURSIVE PutAll(_, _)
PutAll(map, transactions) ==
    IF transactions = <<>> THEN map
    ELSE PutAll(Put(map, Head(transactions)), Tail(transactions))

\* the hashes of a list of merge calls or of transactions, in order
HashesOf(list, at) == [i \in 1..Len(list) |-> list[i][at]]

\* C19: from a well-formed ledger, every step keeps the ledger well formed
\* and keeps every hash it holds; a webhook merge or the merges of a poll
\* leave, for each hash, the record of the latest update of that hash whose
\* updateTime differed from the one stored when it was applied.
C19_LedgerGrowthMonotone ==
    [][\A t \in TxIds :
           Ledger(tx[t]).kind = "object" =>
               LET old == Ledger(tx[t]).map
                   new == Ledger(tx'[t]).map
               IN  /\ Ledger(tx'[t]).kind = "object"
                   /\ DOMAIN old \subseteq DOMAIN new
                   /\ \A data \in LedgerUniverse.events :
                          (/\ last'.op = "paymentRequestTransactionsUpdate"
                           /\ Matching("adapay_uuid", data.paymentRequestUuid) = {t}
                           /\ HandleTransactionsUpdate(data))
                              => new = Put(old, data)
                   /\ \A fetched \in PollsOf(LedgerUniverse, t) :
                          (/\ last'.op = "_get_processing_info"
                           /\ last'.warned = (fetched.raised # "none")
                           /\ HashesOf(Merges(last'.calls), 3)
                                  = HashesOf(fetched.payment.transactions, "hash")
                           /\ \E now \in Nows(tx[t]) : GetProcessingInfo(t, fetched, now))
                              => new = PutAll(old, fetched.payment.transactions)]_vars

\* both hashes were merged, h1 a second time with another updateTime and
\* amount, and the last event, a replay, changed nothing
C19_Witness ==
    \E t \in TxIds :
        /\ last.op = "paymentRequestTransactionsUpdate"
        /\ last.calls = << <<"_adapay_webhook_transaction_feedback", t, "h1">> >>
        /\ last.notes = NoNotes
        /\ Ledger(tx[t]).kind = "object"
        /\ DOMAIN Ledger(tx[t]).map = {"h1", "h2"}
        /\ Ledger(tx[t]).map["h1"].updateTime = "T2"
        /\ Ledger(tx[t]).map["h1"].amount = InAda(1500000)
        /\ Ledger(tx[t]).map["h2"].updateTime = "T1"

\* C20: _process_payment_data applied a second time with the same payload
\* leaves the records, the notes posted and the transitions performed as
\* they were after the first application.
C20_RefreshIsIdempotent ==
    \A t \in TxIds : \A payment \in StatusUniverse.payments :
        LET once == _process_payment_data(Context(tx), t, payment)
            twice == _process_payment_data(once, t, payment)
        IN  /\ twice.raised = "none"
            /\ twice.db = once.db
            /\ StatusFields(twice.db[t]) = StatusFields(once.db[t])
            /\ twice.db[t].state = once.db[t].state
            /\ Ledger(twice.db[t]) = Ledger(once.db[t])
            /\ twice.notes = once.notes
            /\ Transitions(twice.calls) = Transitions(once.calls)
            /\ Len(Merges(twice.calls)) = 2 * Len(payment.transactions)

\* a poll fetched the payload of the poll before it: both transactions were
\* looked at again, nothing was posted and nothing changed
C20_Witness ==
    \E t \in TxIds :
        /\ last.op = "_get_processing_info"
        /\ last.calls = << <<"_adapay_webhook_transaction_feedback", t, "h2">>,
                           <<"_adapay_webhook_transaction_feedback", t, "h1">> >>
        /\ last.notes = NoNotes
        /\ last.ret = "res"
        /\ tx[t].adapay_last_updated = "T2"
        /\ tx[t].adapay_status = "confirmed"
        /\ tx[t].state = "done"
        /\ DOMAIN Ledger(tx[t]).map = {"h1", "h2"}

====
